---- MODULE Spec2Model ----
(***************************************************************************)
(* matrix-content-scanner: the report cache (reporting.js) and the two     *)
(* HTTP handlers in front of it (handlers.js).                             *)
(*                                                                         *)
(* generateReport is an async function with two suspend points, the await  *)
(* on the media download and the await on the scanner command.  Between    *)
(* them the code runs to completion on node's single thread, so each       *)
(* action below is one such run-to-completion segment of one call.         *)
(***************************************************************************)
EXTENDS Integers, Sequences, FiniteSets, TLC

(***************************************************************************)
(* Bounds.                                                                 *)
(***************************************************************************)
\* number of generateReport calls made in one behaviour
NCalls == 2
Calls == 1 .. NCalls

(***************************************************************************)
(* The file objects (req.body.file) handed to generateReport.  A JS object *)
(* keeps its members in insertion order, so a file object is the sequence  *)
(* of its <<name, value>> members.                                         *)
(***************************************************************************)
Members ==
    << <<"url", "mxc://hs/a">>, <<"mimetype", "image/png">>, <<"v", "v2">>,
       <<"key", "k1">>, <<"key", "k2">>, <<"iv", "iv1">>,
       <<"hashes", "sha256:h1">> >>

TypedFile == << <<"url", "mxc://hs/a">>, <<"mimetype", "image/png">> >>
TypedFileReordered == << <<"mimetype", "image/png">>, <<"url", "mxc://hs/a">> >>
EncryptedFile ==
    << <<"v", "v2">>, <<"key", "k1">>, <<"iv", "iv1">>,
       <<"hashes", "sha256:h1">>, <<"url", "mxc://hs/a">> >>
EncryptedFileOtherKey ==
    << <<"v", "v2">>, <<"key", "k2">>, <<"iv", "iv1">>,
       <<"hashes", "sha256:h1">>, <<"url", "mxc://hs/a">> >>

Files == {TypedFile, TypedFileReordered, EncryptedFile, EncryptedFileOtherKey}

\* bodies of POST /scan that scanSchema turns away: a key with no iv, a key
\* with no hashes
KeyWithoutIv ==
    << <<"v", "v2">>, <<"key", "k1">>, <<"hashes", "sha256:h1">>,
       <<"url", "mxc://hs/a">> >>
KeyWithoutHashes ==
    << <<"v", "v2">>, <<"key", "k1">>, <<"iv", "iv1">>,
       <<"url", "mxc://hs/a">> >>

Posted == Files \cup {KeyWithoutIv, KeyWithoutHashes}

NoFile == << >>

Names(object) == {object[i][1] : i \in DOMAIN object}

\* file.name, or "undefined" when the object has no such member
Member(object, name) ==
    IF name \in Names(object)
    THEN (object[CHOOSE i \in DOMAIN object : object[i][1] = name])[2]
    ELSE "undefined"

(***************************************************************************)
(* validate(scanSchema), lines 30-50 and 82: url is required, and a key    *)
(* comes with v, iv and hashes.                                            *)
(***************************************************************************)
ValidatesUrlOnly(f) == "url" \in Names(f)

Validates(f) ==
    /\ "url" \in Names(f)
    /\ "key" \in Names(f) => {"v", "iv", "hashes"} \subseteq Names(f)

(***************************************************************************)
(* JSON.stringify(eventContentFile): the members' text, in the object's    *)
(* own order.  Each member's text is one symbol, numbered by Members.      *)
(***************************************************************************)
MemberText(m) == CHOOSE i \in DOMAIN Members : Members[i] = m

stringify(value) == [i \in DOMAIN value |-> MemberText(value[i])]

(***************************************************************************)
(* base64sha256(s): a digest of the text.  SHA-256 is taken to be          *)
(* collision free on the texts of the model: the digest is the text read   *)
(* as a numeral in base Len(Members) + 1, tagged as base64 output.         *)
(***************************************************************************)
RECURSIVE sha256(_)
sha256(s) ==
    IF s = << >> THEN 0
    ELSE sha256(SubSeq(s, 1, Len(s) - 1)) * (Len(Members) + 1) + s[Len(s)]

base64sha256(s) == <<"base64", sha256(s)>>

ResultSecretOfUrl(eventContentFile) ==
    base64sha256(<<MemberText(<<"url", Member(eventContentFile, "url")>>)>>)

\* line 155, for each file object of the model
SecretOfFile ==
    [f \in Posted \cup {NoFile} |-> base64sha256(stringify(f))]

ResultSecret(eventContentFile) == SecretOfFile[eventContentFile]

(***************************************************************************)
(* Secrets a client may post to /scan_report: any string.  The digests of  *)
(* the files, a string that was never issued, and the name of a property   *)
(* every JS object inherits from Object.prototype.                         *)
(***************************************************************************)
Digests == {ResultSecret(f) : f \in Files}
NeverIssued == <<"text", "AAAA">>
ProtoKeys == { <<"text", "constructor">> }
Secrets == Digests \cup {NeverIssued} \cup ProtoKeys

(***************************************************************************)
(* JS values held in, and read from, resultCache.                          *)
(***************************************************************************)
Undefined == [kind |-> "undefined"]
\* Object.prototype.constructor: a function, with no clean and no info
ProtoValue == [kind |-> "function"]

\* what executeCommand resolves with
ScanResults ==
    { [clean |-> TRUE, info |-> "File is clean", exitCode |-> 0],
      [clean |-> FALSE, info |-> "File not clean", exitCode |-> 1] }

StampUnmarked(result, secret) ==
    [kind |-> "result", clean |-> result.clean, info |-> result.info,
     exitCode |-> result.exitCode, resultSecret |-> <<"text", "undefined">>]

\* line 199: result.resultSecret = resultSecret
Stamp(result, secret) ==
    [kind |-> "result", clean |-> result.clean, info |-> result.info,
     exitCode |-> result.exitCode, resultSecret |-> secret]

\* let resultCache = {}
EmptyCache == [s \in Secrets |-> Undefined]

\* resultCache[key]: the object's own property, else the inherited one
Lookup(cache, key) ==
    IF key \in DOMAIN cache /\ cache[key] # Undefined THEN cache[key]
    ELSE IF key \in ProtoKeys THEN ProtoValue
    ELSE Undefined

(***************************************************************************)
(* opts: the members of config.scan that are present.                      *)
(***************************************************************************)
RequiredOpts == {"baseUrl", "tempDirectory", "script"}
OptSets == {RequiredOpts} \cup {RequiredOpts \ {o} : o \in RequiredOpts}

OptsCompleteIfBaseUrl(o) == "baseUrl" \in o

\* lines 145-148
OptsComplete(o) == RequiredOpts \subseteq o

(***************************************************************************)
(* The temp directory tree: fs[<<d, n>>] is 0 when the path does not       *)
(* exist, else the call that created it.  "." is the directory itself.     *)
(***************************************************************************)
Dirs == 1 .. NCalls
FileNames == {".", "unsafeEncryptedFile", "unsafeFile"}
Paths == Dirs \X FileNames
Absent == 0
NoDir == 0

VARIABLES
    resultCache,   \* reporting.js: let resultCache
    fs,            \* the paths under tempDirectory
    pc,            \* where each POST /scan, and its generateReport call, is
    file,          \* eventContentFile of each call
    opts,          \* opts of each call: the members it has
    tempDir,       \* tempDir of each call
    ret,           \* what each call returned, or the error it threw
    work,          \* the mkdtemp, fetch, decrypt and scan runs of each call,
                   \* and the file its scan command was given
    fresh,         \* the calls that returned a result since the last clear
    cleared,       \* the secrets dropped by a clear and not stored since
    report         \* the getReport call being answered: secret and answer

vars == <<resultCache, fs, pc, file, opts, tempDir, ret, work, fresh,
          cleared, report>>

NoWork ==
    [mkdtemp |-> 0, fetch |-> 0, decrypt |-> 0, scan |-> 0, input |-> "none"]
NoReturn == [kind |-> "none"]
\* throw new Error(message)
Error(message) == [kind |-> "Error", message |-> message]
\* throw new ClientError(status, message)
ClientError(status, message) ==
    [kind |-> "ClientError", status |-> status, message |-> message]
\* what a rejected executeCommand throws: an internal failure, not a
\* ClientError
CommandError == Error("Command failed")
\* what express-validation passes to next() for a body the schema refuses
ValidationError == [kind |-> "ValidationError", status |-> 400]
NoReport == [kind |-> "none"]

Init ==
    /\ resultCache = EmptyCache
    /\ fs = [path \in Paths |-> Absent]
    /\ pc = [c \in Calls |-> "idle"]
    /\ file = [c \in Calls |-> NoFile]
    /\ opts = [c \in Calls |-> {}]
    /\ tempDir = [c \in Calls |-> NoDir]
    /\ ret = [c \in Calls |-> NoReturn]
    /\ work = [c \in Calls |-> NoWork]
    /\ fresh = {}
    /\ cleared = {}
    /\ report = NoReport

(***************************************************************************)
(* clearReportCache, lines 118-120.                                        *)
(***************************************************************************)
ClearedNothing(cache) == cache

Cleared(cache) == EmptyCache

ClearReportCache ==
    /\ report = NoReport
    /\ resultCache' = Cleared(resultCache)
    /\ fresh' = {}
    /\ cleared' = cleared \cup {s \in Secrets : resultCache[s] # Undefined}
    /\ UNCHANGED <<fs, pc, file, opts, tempDir, ret, work, report>>

(***************************************************************************)
(* getReport, lines 123-132, called by scanReportHandler, lines 69-79.     *)
(* getReport awaits nothing and the handler's await on it resumes before   *)
(* any I/O callback runs, so no step of a generateReport call falls        *)
(* between the lookup and the response.  A member that is undefined is     *)
(* left out of the answer, as res.json leaves it out of the response body. *)
(***************************************************************************)
GetReportResult(cache, resultSecret) ==
    LET result == Lookup(cache, resultSecret) IN
    IF result = Undefined
    THEN [clean |-> FALSE, scanned |-> FALSE,
          info |-> "Secret not recognised, file not scanned."]
    ELSE IF result.kind = "result"
         THEN [clean |-> result.clean, scanned |-> TRUE, info |-> result.info]
         ELSE [scanned |-> TRUE]

Asked(resultSecret) ==
    [kind |-> "report", secret |-> resultSecret,
     answer |-> GetReportResult(resultCache, resultSecret)]

GetReportConsuming(resultSecret) ==
    /\ report = NoReport
    /\ report' = Asked(resultSecret)
    /\ resultCache' = [resultCache EXCEPT ![resultSecret] = Undefined]
    /\ UNCHANGED <<fs, pc, file, opts, tempDir, ret, work, fresh, cleared>>

GetReport(resultSecret) ==
    /\ report = NoReport
    /\ report' = Asked(resultSecret)
    /\ UNCHANGED <<resultCache, fs, pc, file, opts, tempDir, ret, work,
                   fresh, cleared>>

\* lines 72-78: the answer is logged and sent
ReportSent ==
    /\ report # NoReport
    /\ report' = NoReport
    /\ UNCHANGED <<resultCache, fs, pc, file, opts, tempDir, ret, work,
                   fresh, cleared>>

(***************************************************************************)
(* generateReport, lines 142-210.                                          *)
(***************************************************************************)
IsCachedNever(cache, resultSecret) == FALSE

\* line 157
IsCached(cache, resultSecret) == Lookup(cache, resultSecret) # Undefined

\* line 201
Store(cache, resultSecret, result) ==
    [cache EXCEPT ![resultSecret] = result]

MkdirFixed(files) == CHOOSE dir \in Dirs : \A other \in Dirs : dir <= other

\* line 163: fs.mkdtempSync gives a directory that did not exist.  The
\* names are interchangeable, so the first free one stands for any.
Mkdtemp(files) == CHOOSE dir \in Dirs :
    /\ files[<<dir, ".">>] = Absent
    /\ \A other \in Dirs : files[<<other, ".">>] = Absent => dir <= other

\* lines 203-207: unlink filePath, unlink decryptedFilePath, rmdir tempDir
Unlinked(files, dir) ==
    [path \in Paths |-> IF path[1] = dir THEN Absent ELSE files[path]]

\* A call begins.  The calls are numbered in the order they begin.
Begins(c) ==
    /\ report = NoReport
    /\ pc[c] = "idle"
    /\ \A earlier \in Calls : earlier < c => pc[earlier] # "idle"

\* line 82: validate(scanSchema) turns the request away with an error of
\* its own; scanHandler, and so generateReport, is not called
ScanRejected(c) ==
    /\ Begins(c)
    /\ \E f \in Posted :
          /\ ~Validates(f)
          /\ file' = [file EXCEPT ![c] = f]
    /\ pc' = [pc EXCEPT ![c] = "rejected"]
    /\ ret' = [ret EXCEPT ![c] = ValidationError]
    /\ UNCHANGED <<resultCache, fs, opts, tempDir, work, fresh, cleared,
                   report>>

\* lines 145-148: opts lacks a member, the call throws
GenerateConfigError(c) ==
    /\ Begins(c)
    /\ \E f \in Posted, o \in OptSets :
          /\ Validates(f)
          /\ ~OptsComplete(o)
          /\ file' = [file EXCEPT ![c] = f]
          /\ opts' = [opts EXCEPT ![c] = o]
    /\ pc' = [pc EXCEPT ![c] = "threw"]
    /\ ret' = [ret EXCEPT ![c] =
                  Error("Expected baseUrl, tempDirectory and script in opts")]
    /\ UNCHANGED <<resultCache, fs, tempDir, work, fresh, cleared, report>>

\* lines 155-161: the secret is in the cache, the cached result is returned
GenerateCacheHit(c) ==
    /\ Begins(c)
    /\ \E f \in Posted, o \in OptSets :
          /\ Validates(f)
          /\ OptsComplete(o)
          /\ IsCached(resultCache, ResultSecret(f))
          /\ file' = [file EXCEPT ![c] = f]
          /\ opts' = [opts EXCEPT ![c] = o]
          /\ ret' = [ret EXCEPT ![c] = Lookup(resultCache, ResultSecret(f))]
    /\ pc' = [pc EXCEPT ![c] = "returned"]
    /\ fresh' = fresh \cup {c}
    /\ UNCHANGED <<resultCache, fs, tempDir, work, cleared, report>>

\* lines 163-169: the temp directory is made and the download is started
GenerateCacheMiss(c) ==
    /\ Begins(c)
    /\ \E f \in Posted, o \in OptSets :
          /\ Validates(f)
          /\ OptsComplete(o)
          /\ ~IsCached(resultCache, ResultSecret(f))
          /\ file' = [file EXCEPT ![c] = f]
          /\ opts' = [opts EXCEPT ![c] = o]
    /\ fs' = [fs EXCEPT ![<<Mkdtemp(fs), ".">>] = c]
    /\ tempDir' = [tempDir EXCEPT ![c] = Mkdtemp(fs)]
    /\ work' = [work EXCEPT ![c].mkdtemp = 1, ![c].fetch = 1]
    /\ pc' = [pc EXCEPT ![c] = "fetch"]
    /\ UNCHANGED <<resultCache, ret, fresh, cleared, report>>

FetchFailedAsBadRequest(c) ==
    /\ report = NoReport
    /\ pc[c] = "fetch"
    /\ pc' = [pc EXCEPT ![c] = "threw"]
    /\ ret' = [ret EXCEPT ![c] = ClientError(400, "Failed to get requested URL")]
    /\ UNCHANGED <<resultCache, fs, file, opts, tempDir, work, fresh,
                   cleared, report>>

\* lines 170-173: the download failed
FetchFailed(c) ==
    /\ report = NoReport
    /\ pc[c] = "fetch"
    /\ pc' = [pc EXCEPT ![c] = "threw"]
    /\ ret' = [ret EXCEPT ![c] = ClientError(502, "Failed to get requested URL")]
    /\ UNCHANGED <<resultCache, fs, file, opts, tempDir, work, fresh,
                   cleared, report>>

\* lines 175, 188-195: no key, the downloaded file is scanned as it is
FetchedPlain(c) ==
    /\ report = NoReport
    /\ pc[c] = "fetch"
    /\ Member(file[c], "key") = "undefined"
    /\ fs' = [fs EXCEPT ![<<tempDir[c], "unsafeEncryptedFile">>] = c]
    /\ work' = [work EXCEPT ![c].scan = 1,
                            ![c].input = "unsafeEncryptedFile"]
    /\ pc' = [pc EXCEPT ![c] = "scan"]
    /\ UNCHANGED <<resultCache, file, opts, tempDir, ret, fresh, cleared,
                   report>>

FetchedDecryptedScansDownload(c) ==
    /\ report = NoReport
    /\ pc[c] = "fetch"
    /\ Member(file[c], "key") # "undefined"
    /\ fs' = [fs EXCEPT ![<<tempDir[c], "unsafeEncryptedFile">>] = c,
                        ![<<tempDir[c], "unsafeFile">>] = c]
    /\ work' = [work EXCEPT ![c].decrypt = 1, ![c].scan = 1,
                            ![c].input = "unsafeEncryptedFile"]
    /\ pc' = [pc EXCEPT ![c] = "scan"]
    /\ UNCHANGED <<resultCache, file, opts, tempDir, ret, fresh, cleared,
                   report>>

\* lines 175-183, 193-195: the file is decrypted and the plaintext scanned
FetchedDecrypted(c) ==
    /\ report = NoReport
    /\ pc[c] = "fetch"
    /\ Member(file[c], "key") # "undefined"
    /\ fs' = [fs EXCEPT ![<<tempDir[c], "unsafeEncryptedFile">>] = c,
                        ![<<tempDir[c], "unsafeFile">>] = c]
    /\ work' = [work EXCEPT ![c].decrypt = 1, ![c].scan = 1,
                            ![c].input = "unsafeFile"]
    /\ pc' = [pc EXCEPT ![c] = "scan"]
    /\ UNCHANGED <<resultCache, file, opts, tempDir, ret, fresh, cleared,
                   report>>

DecryptFailedCaching(c) ==
    /\ report = NoReport
    /\ pc[c] = "fetch"
    /\ Member(file[c], "key") # "undefined"
    /\ fs' = [fs EXCEPT ![<<tempDir[c], "unsafeEncryptedFile">>] = c]
    /\ work' = [work EXCEPT ![c].decrypt = 1]
    /\ pc' = [pc EXCEPT ![c] = "threw"]
    /\ ret' = [ret EXCEPT ![c] = ClientError(400, "Failed to decrypt file")]
    /\ resultCache' =
          Store(resultCache, ResultSecret(file[c]),
                Stamp([clean |-> FALSE, info |-> "Failed to decrypt file",
                       exitCode |-> 1], ResultSecret(file[c])))
    /\ UNCHANGED <<file, opts, tempDir, fresh, cleared, report>>

\* lines 175-187: decryptFile threw
DecryptFailed(c) ==
    /\ report = NoReport
    /\ pc[c] = "fetch"
    /\ Member(file[c], "key") # "undefined"
    /\ fs' = [fs EXCEPT ![<<tempDir[c], "unsafeEncryptedFile">>] = c]
    /\ work' = [work EXCEPT ![c].decrypt = 1]
    /\ pc' = [pc EXCEPT ![c] = "threw"]
    /\ ret' = [ret EXCEPT ![c] = ClientError(400, "Failed to decrypt file")]
    /\ UNCHANGED <<resultCache, file, opts, tempDir, fresh, cleared, report>>

ScanFailedCaching(c) ==
    /\ report = NoReport
    /\ pc[c] = "scan"
    /\ pc' = [pc EXCEPT ![c] = "threw"]
    /\ ret' = [ret EXCEPT ![c] = CommandError]
    /\ resultCache' =
          Store(resultCache, ResultSecret(file[c]),
                Stamp([clean |-> FALSE, info |-> "Command failed",
                       exitCode |-> 1], ResultSecret(file[c])))
    /\ UNCHANGED <<fs, file, opts, tempDir, work, fresh, cleared, report>>

\* line 195: executeCommand rejected, the error leaves generateReport
ScanFailed(c) ==
    /\ report = NoReport
    /\ pc[c] = "scan"
    /\ pc' = [pc EXCEPT ![c] = "threw"]
    /\ ret' = [ret EXCEPT ![c] = CommandError]
    /\ UNCHANGED <<resultCache, fs, file, opts, tempDir, work, fresh,
                   cleared, report>>

\* lines 195-209: the scan ended, its result is stamped, stored and returned
ScanCompleted(c) ==
    /\ report = NoReport
    /\ pc[c] = "scan"
    /\ \E result \in ScanResults :
          LET resultSecret == ResultSecret(file[c])
              stamped == Stamp(result, resultSecret)
          IN /\ resultCache' = Store(resultCache, resultSecret, stamped)
             /\ ret' = [ret EXCEPT ![c] = stamped]
             /\ cleared' = cleared \ {resultSecret}
    /\ fs' = Unlinked(fs, tempDir[c])
    /\ pc' = [pc EXCEPT ![c] = "returned"]
    /\ fresh' = fresh \cup {c}
    /\ UNCHANGED <<file, opts, tempDir, work, report>>

InFlight(c) == pc[c] \in {"fetch", "scan"}

Next ==
    \/ ClearReportCache
    \/ \E s \in Secrets : GetReport(s)
    \/ ReportSent
    \/ \E c \in Calls : ScanRejected(c)
    \/ \E c \in Calls : GenerateConfigError(c)
    \/ \E c \in Calls : GenerateCacheHit(c)
    \/ \E c \in Calls : GenerateCacheMiss(c)
    \/ \E c \in Calls : FetchFailed(c)
    \/ \E c \in Calls : FetchedPlain(c)
    \/ \E c \in Calls : FetchedDecrypted(c)
    \/ \E c \in Calls : DecryptFailed(c)
    \/ \E c \in Calls : ScanFailed(c)
    \/ \E c \in Calls : ScanCompleted(c)

Spec == Init /\ [][Next]_vars

(***************************************************************************)
(* The same program when a caller starts a generateReport call only after  *)
(* the calls before it have returned or thrown.                            *)
(***************************************************************************)
NoneInFlight == \A c \in Calls : ~InFlight(c)

NextInSequence ==
    \/ ClearReportCache
    \/ \E s \in Secrets : GetReport(s)
    \/ ReportSent
    \/ \E c \in Calls : NoneInFlight /\ ScanRejected(c)
    \/ \E c \in Calls : NoneInFlight /\ GenerateConfigError(c)
    \/ \E c \in Calls : NoneInFlight /\ GenerateCacheHit(c)
    \/ \E c \in Calls : NoneInFlight /\ GenerateCacheMiss(c)
    \/ \E c \in Calls : FetchFailed(c)
    \/ \E c \in Calls : FetchedPlain(c)
    \/ \E c \in Calls : FetchedDecrypted(c)
    \/ \E c \in Calls : DecryptFailed(c)
    \/ \E c \in Calls : ScanFailed(c)
    \/ \E c \in Calls : ScanCompleted(c)

SpecInSequence == Init /\ [][NextInSequence]_vars

(***************************************************************************)
(* The program with the fair scheduling Node gives it: a handler whose     *)
(* awaited promise has settled is resumed.  The download and the scan      *)
(* command settle when the remote server and the scanner answer; the code  *)
(* sets no timeout on either (lines 169 and 195), so nothing in the        *)
(* program forces them to.                                                 *)
(***************************************************************************)
SpecFair == Spec /\ WF_vars(ReportSent)

(***************************************************************************)
(* scanReportHandler, lines 69-79, with the secret as the text the client  *)
(* posted: a non-empty string (scanReportSchema, line 65) over a two       *)
(* letter alphabet.  Such a text is no digest and no property name, so    *)
(* it is tagged apart from the members of Secrets.                         *)
(***************************************************************************)
MaxSecretLen == 9
Chars == {"a", "b"}
SecretTexts == UNION {[1 .. n -> Chars] : n \in 1 .. MaxSecretLen}

Min(a, b) == IF a < b THEN a ELSE b
Max(a, b) == IF a > b THEN a ELSE b

\* String.prototype.slice(0, end) and slice(-n)
SliceHead(s, end) == SubSeq(s, 1, Min(end, Len(s)))
SliceTail(s, n) == SubSeq(s, Max(1, Len(s) - n + 1), Len(s))

Ellipsis == <<".", ".", ".">>

\* line 73
redactedSecret(secret) ==
    SliceHead(secret, 4) \o Ellipsis \o SliceTail(secret, 4)

\* lines 70-76: the report is looked up, the secret is redacted and the
\* line is logged
ScanReport(secret) ==
    /\ report = NoReport
    /\ report' = [kind |-> "report", secret |-> <<"chars", secret>>,
                  answer |-> GetReportResult(resultCache, <<"chars", secret>>),
                  log |-> redactedSecret(secret)]
    /\ UNCHANGED <<resultCache, fs, pc, file, opts, tempDir, ret, work,
                   fresh, cleared>>

NextScanReport ==
    \/ \E secret \in SecretTexts : ScanReport(secret)
    \/ ReportSent

SpecScanReport == Init /\ [][NextScanReport]_vars

(***************************************************************************)
(* Properties.                                                             *)
(***************************************************************************)
Done(c) == pc[c] \in {"returned", "threw"}

\* two file objects with the same members, whatever their order
SameMembers(f, g) == {f[i] : i \in DOMAIN f} = {g[i] : i \in DOMAIN g}

\* the step in which call c begins with complete opts
BeginsWithOpts(c) ==
    /\ pc[c] = "idle"
    /\ pc'[c] # "idle"
    /\ ret'[c].kind # "Error"

\* C1: when calls follow one another, a call for the file of a call that
\* returned a result (no clear since) is over in the step it begins in: it
\* returns that same result, makes no temp directory, and runs no fetch, no
\* decrypt and no scan, so the fetches and scans of the two calls are the
\* one fetch and one scan of the first, and the decrypts at most one.
C1_SecondCallServedFromCache ==
    [][\A q \in Calls : \A p \in fresh :
          (BeginsWithOpts(q) /\ file'[q] = file[p])
          => /\ pc'[q] = "returned"
             /\ ret'[q] = ret[p]
             /\ work'[q] = NoWork
             /\ fs' = fs
             /\ (work[p].mkdtemp = 1
                    => /\ work[p].fetch + work'[q].fetch = 1
                       /\ work[p].decrypt + work'[q].decrypt <= 1
                       /\ work[p].scan + work'[q].scan = 1)]_vars

C1_Witness ==
    \E p, q \in Calls :
        /\ p < q
        /\ pc[p] = "returned" /\ pc[q] = "returned"
        /\ {p, q} \subseteq fresh
        /\ file[p] = file[q]
        /\ work[p].fetch = 1 /\ work[p].scan = 1
        /\ work[q] = NoWork
        /\ ret[q] = ret[p]

\* C2: no two scans of the same secret are in flight at once.
C2_OneScanInFlightPerSecret ==
    \A p, q \in Calls :
        (p # q /\ pc[p] = "scan" /\ pc[q] = "scan")
        => ResultSecret(file[p]) # ResultSecret(file[q])

\* C3: once a call has returned or thrown, no path it created exists.
C3_NoTempLeftBehind ==
    \A c \in Calls : Done(c) => \A path \in Paths : fs[path] # c

\* C4: the step in which a call throws leaves the cache as it was, and a
\* step that puts a result in the cache is the step in which a call's scan
\* ends and that call returns that result.
C4_OnlyCompletedScansAreCached ==
    [][/\ \A c \in Calls :
             (pc[c] # "threw" /\ pc'[c] = "threw")
             => resultCache' = resultCache
       /\ \A s \in Secrets :
             (resultCache'[s] # resultCache[s] /\ resultCache'[s] # Undefined)
             => \E c \in Calls :
                   /\ pc[c] = "scan" /\ pc'[c] = "returned"
                   /\ work[c].scan = 1
                   /\ ResultSecret(file[c]) = s
                   /\ ret'[c] = resultCache'[s]]_vars

C4_Witness ==
    \E c, d \in Calls :
        /\ pc[c] = "threw" /\ work[c].scan = 1
        /\ resultCache[ResultSecret(file[c])] = Undefined
        /\ pc[d] = "returned" /\ work[d].scan = 1
        /\ resultCache[ResultSecret(file[d])] = ret[d]

\* C5: a getReport for the secret of a call that returned a result (no
\* clear since) answers scanned, with that call's clean and info.
C5_ReportMatchesReturnedResult ==
    report # NoReport
    => \A c \in fresh :
          ret[c].resultSecret = report.secret
          => /\ report.answer.scanned
             /\ report.answer.clean = ret[c].clean
             /\ report.answer.info = ret[c].info

\* C6: a result in the cache is not replaced by another result; only a
\* clear takes it away.
C6_CachedResultIsWriteOnce ==
    [][\A s \in Secrets :
          resultCache[s] # Undefined
          => resultCache'[s] \in {resultCache[s], Undefined}]_vars

\* C7: a getReport for a secret that has no cache entry answers not
\* scanned, not clean, with the explanatory message.
C7_UnknownSecretIsNotScanned ==
    (report # NoReport /\ resultCache[report.secret] = Undefined)
    => /\ report.answer.scanned = FALSE
       /\ report.answer.clean = FALSE
       /\ report.answer.info = "Secret not recognised, file not scanned."

\* C8: the step in which getReport answers changes neither the cache nor
\* the temp tree, and moves no generateReport call: nothing is fetched,
\* decrypted or scanned and no directory is made.
C8_GetReportOnlyLooksUp ==
    [][(report = NoReport /\ report' # NoReport)
       => UNCHANGED <<resultCache, fs, pc, file, tempDir, ret, work>>]_vars

C8_Witness ==
    /\ report # NoReport
    /\ report.answer.scanned
    /\ resultCache[report.secret] # Undefined
    /\ \E c \in Calls : InFlight(c)

\* C9: for a secret that a clear dropped from the cache, and that no scan
\* has stored since, getReport answers not scanned, and a generateReport
\* call for it misses the cache: it makes a temp directory and fetches.
C9_ClearForgetsResults ==
    /\ [](report # NoReport /\ report.secret \in cleared
            => report.answer.scanned = FALSE)
    /\ [][\A c \in Calls :
             (BeginsWithOpts(c) /\ ResultSecret(file'[c]) \in cleared)
             => /\ pc'[c] = "fetch"
                /\ work'[c].mkdtemp = 1
                /\ work'[c].fetch = 1]_vars

C9_Witness ==
    /\ report # NoReport
    /\ report.secret \in cleared
    /\ \E c \in Calls :
          /\ pc[c] = "fetch"
          /\ ResultSecret(file[c]) = report.secret

\* C10: two file objects with the same members in another order have the
\* same secret.
C10_SecretIgnoresMemberOrder ==
    \A p, q \in Calls :
        (pc[p] # "idle" /\ pc[q] # "idle" /\ SameMembers(file[p], file[q]))
        => ResultSecret(file[p]) = ResultSecret(file[q])

\* the paths call c created that still exist
Owned(c) == {path \in Paths : fs[path] = c}

\* C11: a call whose opts lacks baseUrl, tempDirectory or script throws the
\* configuration error having made no temp directory and run no fetch, no
\* decrypt and no scan, and the step in which it does so leaves the cache
\* and the temp tree as they were, cached secret or not.
C11_MissingOptsFailsBeforeAnyWork ==
    /\ [](\A c \in Calls :
            (pc[c] \notin {"idle", "rejected"} /\ RequiredOpts \ opts[c] # {})
            => /\ pc[c] = "threw"
               /\ ret[c] =
                     Error("Expected baseUrl, tempDirectory and script in opts")
               /\ work[c] = NoWork
               /\ tempDir[c] = NoDir
               /\ Owned(c) = {})
    /\ [][\A c \in Calls :
             (pc[c] = "idle" /\ pc'[c] # "idle" /\ RequiredOpts \ opts'[c] # {}
                /\ pc'[c] # "rejected")
             => UNCHANGED <<resultCache, fs, work>>]_vars

C11_Witness ==
    \E c \in Calls :
        /\ pc[c] = "threw"
        /\ "script" \notin opts[c]
        /\ resultCache[ResultSecret(file[c])] # Undefined

\* a body with a key and without iv or hashes
KeyLacksIvOrHashes(f) ==
    /\ "key" \in Names(f)
    /\ ~({"iv", "hashes"} \subseteq Names(f))

\* C12: a POST /scan whose file has a key and lacks iv or hashes is turned
\* away: generateReport is not entered (it gets no opts, makes no temp
\* directory, fetches and scans nothing), and the step that turns it away
\* leaves the cache and the temp tree as they were.
C12_KeyWithoutIvOrHashesIsRejected ==
    /\ [](\A c \in Calls :
            (pc[c] # "idle" /\ KeyLacksIvOrHashes(file[c]))
            => /\ pc[c] = "rejected"
               /\ ret[c] = ValidationError
               /\ opts[c] = {}
               /\ work[c] = NoWork
               /\ tempDir[c] = NoDir
               /\ Owned(c) = {})
    /\ [][\A c \in Calls :
             (pc[c] = "idle" /\ pc'[c] # "idle" /\ KeyLacksIvOrHashes(file'[c]))
             => UNCHANGED <<resultCache, fs, work>>]_vars

C12_Witness ==
    \E c, d \in Calls :
        /\ pc[c] = "rejected" /\ file[c] = KeyWithoutIv
        /\ pc[d] = "rejected" /\ file[d] = KeyWithoutHashes

\* call c ran a scan to its end and returned its result
Scanned(c) == pc[c] = "returned" /\ work[c].scan = 1

\* the file objects of the model that have a key
KeyedFiles == {f \in Posted : Member(f, "key") # "undefined"}

HasKey(f) == f \in KeyedFiles

\* C13: while a call has failed to decrypt and no scan of the same file
\* object has ended, the cache holds nothing under that file's secret; and
\* a call for the same url with other key material, whose scan has ended
\* since the last clear, has returned a result, and the cache holds a
\* result under that call's own secret.
C13_DecryptFailureCachesNothing ==
    \A p \in Calls :
        ret[p] = ClientError(400, "Failed to decrypt file")
        => /\ (\A d \in Calls : Scanned(d) => file[d] # file[p])
                 => resultCache[ResultSecret(file[p])] = Undefined
           /\ \A q \in fresh :
                 (/\ work[q].scan = 1
                  /\ Member(file[q], "url") = Member(file[p], "url")
                  /\ Member(file[q], "key") # Member(file[p], "key"))
                 => /\ ret[q].kind = "result"
                    /\ resultCache[ResultSecret(file[q])] # Undefined
                    /\ resultCache[ResultSecret(file[q])].resultSecret
                          = ResultSecret(file[q])

C13_Witness ==
    \E p, q \in Calls :
        /\ p < q
        /\ file[p] = EncryptedFile
        /\ ret[p] = ClientError(400, "Failed to decrypt file")
        /\ file[q] = EncryptedFileOtherKey
        /\ Scanned(q) /\ q \in fresh
        /\ resultCache[ResultSecret(file[q])] = ret[q]
        /\ resultCache[ResultSecret(file[p])] = Undefined

\* how far a call that threw had got
FailedAtConfig(c) == pc[c] = "threw" /\ work[c].mkdtemp = 0
FailedAtFetch(c) ==
    /\ pc[c] = "threw" /\ work[c].mkdtemp = 1
    /\ fs[<<tempDir[c], "unsafeEncryptedFile">>] # c
FailedAtDecrypt(c) ==
    /\ pc[c] = "threw" /\ work[c].decrypt = 1 /\ work[c].scan = 0
FailedAtScan(c) == pc[c] = "threw" /\ work[c].scan = 1

IsClientError(e, status) == e.kind = "ClientError" /\ e.status = status

\* C14: a call whose download failed threw the 502 ClientError and ran no
\* decrypt and no scan; a call whose decrypt failed threw the 400
\* ClientError and ran no scan; a call that failed on its opts or on its
\* scan command threw neither of the two; and the 502 and the 400 are
\* thrown by no other failure.
C14_EachFailureHasItsError ==
    \A c \in Calls :
        /\ FailedAtFetch(c)
              => /\ ret[c] = ClientError(502, "Failed to get requested URL")
                 /\ work[c].decrypt = 0 /\ work[c].scan = 0
        /\ FailedAtDecrypt(c)
              => /\ ret[c] = ClientError(400, "Failed to decrypt file")
                 /\ work[c].scan = 0
        /\ (FailedAtConfig(c) \/ FailedAtScan(c))
              => /\ ret[c].kind = "Error"
                 /\ ~IsClientError(ret[c], 502)
                 /\ ~IsClientError(ret[c], 400)
        /\ (pc[c] = "threw" /\ IsClientError(ret[c], 502)) => FailedAtFetch(c)
        /\ (pc[c] = "threw" /\ IsClientError(ret[c], 400)) => FailedAtDecrypt(c)

C14_Witness ==
    \E c, d \in Calls :
        /\ FailedAtFetch(c) /\ HasKey(file[c])
        /\ FailedAtDecrypt(d)

\* C15: the line logged for a secret shows fewer characters than the secret
\* has, and the secret cannot be read back from it: some other secret of
\* the same length is logged as the same line.
C15_LogLineHidesSecret ==
    "log" \in DOMAIN report
    => /\ Len(report.log) - Len(Ellipsis) < Len(report.secret[2])
       /\ \E other \in SecretTexts :
              /\ Len(other) = Len(report.secret[2])
              /\ other # report.secret[2]
              /\ redactedSecret(other) = report.log

\* C16: every call in flight ends, returning or throwing, with nothing of
\* its own left on disk.
C16_EveryCallTerminates ==
    \A c \in Calls : InFlight(c) ~> (Done(c) /\ Owned(c) = {})

\* C17: a call that started a scan had fetched and written the download;
\* with a key it had decrypted and gave the scan the decrypted file, with
\* no key it decrypted nothing and gave the scan the download itself; and
\* once its scan has ended (no clear since) the cache holds a result under
\* the secret of its file.
C17_ScanInputFollowsKey ==
    \A c \in Calls :
        /\ ~HasKey(file[c]) => work[c].decrypt = 0
        /\ work[c].scan = 1
              => /\ work[c].fetch = 1
                 /\ pc[c] # "returned"
                       => fs[<<tempDir[c], "unsafeEncryptedFile">>] = c
                 /\ HasKey(file[c])
                       => /\ work[c].decrypt = 1
                          /\ work[c].input = "unsafeFile"
                 /\ ~HasKey(file[c])
                       => work[c].input = "unsafeEncryptedFile"
        /\ (Scanned(c) /\ c \in fresh)
              => /\ resultCache[ResultSecret(file[c])] # Undefined
                 /\ resultCache[ResultSecret(file[c])].resultSecret
                       = ret[c].resultSecret

C17_Witness ==
    \E c, d \in Calls :
        /\ Scanned(c) /\ c \in fresh /\ HasKey(file[c])
        /\ work[c].input = "unsafeFile"
        /\ pc[d] = "scan" /\ ~HasKey(file[d])
        /\ work[d].input = "unsafeEncryptedFile"

\* C18: every cache entry under secret s is a result stamped s, returned by
\* a call whose file has the secret s; and every result a call returned,
\* from a scan or from the cache, is stamped with the secret of its file.
C18_EntriesAreStampedWithTheirKey ==
    /\ \A s \in Secrets :
          resultCache[s] # Undefined
          => /\ resultCache[s].resultSecret = s
             /\ \E c \in Calls :
                   /\ Scanned(c)
                   /\ ResultSecret(file[c]) = s
                   /\ ret[c] = resultCache[s]
    /\ \A c \in Calls :
          pc[c] = "returned" => ret[c].resultSecret = ResultSecret(file[c])

C18_Witness ==
    \E c, d \in Calls :
        /\ Scanned(c)
        /\ pc[d] = "returned" /\ work[d] = NoWork
        /\ ret[d].resultSecret = ResultSecret(file[d])
        /\ resultCache[ResultSecret(file[c])] = ret[c]

\* C19: two calls in flight never have the same temp directory, and the
\* directory of a call in flight, and the files it has written there, exist
\* and are its own: no other call made, wrote or removed them.
C19_TempDirsAreNotShared ==
    \A c \in Calls :
        InFlight(c)
        => /\ fs[<<tempDir[c], ".">>] = c
           /\ pc[c] = "scan" => fs[<<tempDir[c], "unsafeEncryptedFile">>] = c
           /\ (pc[c] = "scan" /\ HasKey(file[c]))
                 => fs[<<tempDir[c], "unsafeFile">>] = c
           /\ \A d \in Calls :
                 (d # c /\ InFlight(d)) => tempDir[d] # tempDir[c]

C19_Witness ==
    \E c, d \in Calls :
        /\ c # d
        /\ pc[c] = "scan" /\ pc[d] = "scan"
        /\ file[c] = file[d]
        /\ tempDir[c] # tempDir[d]

\* the url, and the key, iv and hashes, of each file object of the model
UrlOf == [f \in Posted |-> Member(f, "url")]
KeyMaterialOf ==
    [f \in Posted |->
        <<Member(f, "key"), Member(f, "iv"), Member(f, "hashes")>>]

\* two file objects with one url and other key, iv or hashes
SameUrlOtherKeyMaterial(f, g) ==
    UrlOf[f] = UrlOf[g] /\ KeyMaterialOf[f] # KeyMaterialOf[g]

\* C20: for two calls whose files have one url and other key material, the
\* secrets differ, the result the one returned is stamped with its own
\* secret, and it is not the entry the cache holds for the other.
C20_SecretCoversKeyMaterial ==
    \A c, d \in Calls :
        (/\ pc[c] \notin {"idle", "rejected"}
         /\ pc[d] \notin {"idle", "rejected"}
         /\ SameUrlOtherKeyMaterial(file[c], file[d]))
        => /\ ResultSecret(file[c]) # ResultSecret(file[d])
           /\ pc[c] = "returned"
                 => /\ ret[c].resultSecret # ResultSecret(file[d])
                    /\ resultCache[ResultSecret(file[d])] # ret[c]

C20_Witness ==
    \E c, d \in Calls :
        /\ file[c] = EncryptedFile /\ file[d] = EncryptedFileOtherKey
        /\ Scanned(c) /\ Scanned(d)
        /\ ret[c].clean # ret[d].clean
        /\ resultCache[ResultSecret(file[c])] = ret[c]
        /\ resultCache[ResultSecret(file[d])] = ret[d]

====
